---- MODULE Spec2Model ----
(***************************************************************************)
(* A model of apputil.py: the four table builders over the Titanic         *)
(* passenger table (survival_demographics, family_groups, last_names,      *)
(* determine_age_division).  Every builder reloads the remote CSV (df),    *)
(* transforms it with pandas and returns a table.  The state is the        *)
(* published table (df), the installed pandas release as far as the        *)
(* builders' results depend on it (pandas), the builder called last (call) *)
(* with the table or figure it returned (result), and the builder called   *)
(* before that one (prev).                                                 *)
(*                                                                         *)
(* Numbers: ages are whole years, fares whole pounds.  A survival rate is  *)
(* carried in thousandths (round(3)), a fare statistic in hundredths       *)
(* (round(2)), a median as twice its value, so every float the code can    *)
(* produce on these inputs is an exact integer here.                       *)
(***************************************************************************)
EXTENDS Integers, Sequences, FiniteSets, TLC

VARIABLES df, pandas, prev, call, result

vars == <<df, pandas, prev, call, result>>

\* ------------------------------------------------------------------ bounds
\* Longest passenger table drawn as input.
MaxRecords == 3

\* ------------------------------------------------------- pandas primitives
\* pandas' missing value (NaN) in a numeric column.
NaN == -1

\* pandas' missing value in a label column (a record pd.cut leaves unbinned).
NoGroup == "nan"

\* The values of a column or sequence.
Range(f) == {f[x] : x \in DOMAIN f}

\* Code points of the labels the code compares as Python strings.
Ord(s) ==
    CASE s = "female" -> <<102, 101, 109, 97, 108, 101>>
      [] s = "male"   -> <<109, 97, 108, 101>>
      [] s = "Child"  -> <<67, 104, 105, 108, 100>>
      [] s = "Teen"   -> <<84, 101, 101, 110>>
      [] s = "Adult"  -> <<65, 100, 117, 108, 116>>
      [] s = "Senior" -> <<83, 101, 110, 105, 111, 114>>

\* Python's str.__lt__ on two code point sequences: lexicographic.
RECURSIVE SeqLess(_, _)
SeqLess(a, b) ==
    IF b = <<>> THEN FALSE
    ELSE IF a = <<>> THEN TRUE
    ELSE IF a[1] # b[1] THEN a[1] < b[1]
    ELSE SeqLess(Tail(a), Tail(b))

\* The order of two sort keys.  A key holds one component per sort column, a
\* component being the code points of a string or a single number; keys are
\* compared column by column.
RECURSIVE KeyLess(_, _)
KeyLess(a, b) ==
    IF a = <<>> \/ b = <<>> THEN FALSE
    ELSE IF a[1] # b[1] THEN SeqLess(a[1], b[1])
    ELSE KeyLess(Tail(a), Tail(b))

\* sorted(values): the ascending sequence of a set of distinct values, key[x]
\* being the sort key of x.
sorted(S, key) ==
    LET asc[T \in SUBSET S] ==
            IF T = {} THEN <<>>
            ELSE LET m == CHOOSE x \in T : \A y \in T : ~KeyLess(key[y], key[x])
                 IN  <<m>> \o asc[T \ {m}]
    IN  asc[S]

\* Stable insertion of the pair r = <<key, row>> into a sequence of pairs
\* sorted by key: before the first pair whose key is greater.
InsertSorted(r, s) ==
    LET after == {j \in DOMAIN s : KeyLess(r[1], s[j][1])}
        p     == IF after = {} THEN Len(s) + 1
                 ELSE CHOOSE j \in after : \A k \in after : j <= k
    IN  SubSeq(s, 1, p - 1) \o <<r>> \o SubSeq(s, p, Len(s))

\* sort_values: a stable sort of the rows, keys[i] being the sort key of
\* rows[i].
sort_values(rows, keys) ==
    LET done[k \in 0..Len(rows)] ==
            IF k = 0 THEN <<>>
            ELSE InsertSorted(<<keys[k], rows[k]>>, done[k - 1])
    IN  [i \in DOMAIN rows |-> done[Len(rows)][i][2]]

\* A faulty RoundDiv: the quotient cut off after k decimals instead of rounded.
RoundDiv_truncated(num, den, scale) == (scale * num) \div den

\* round(x, k) of the quotient num/den scaled by 10^k: the nearest integer to
\* scale*num/den, a tie going to the even neighbour (numpy's round).
RoundDiv(num, den, scale) ==
    LET q == (scale * num) \div den
        r == (scale * num) % den
    IN  IF 2 * r < den THEN q
        ELSE IF 2 * r > den THEN q + 1
        ELSE IF q % 2 = 0 THEN q ELSE q + 1

\* Series.unique(): the distinct values of a column.
unique(d, col) == {d[i][col] : i \in DOMAIN d}

\* df[name] = values: the rows with one more column, values[i] in row i.
WithColumn(d, name, values) ==
    [i \in DOMAIN d |->
        [c \in DOMAIN d[i] \cup {name} |-> IF c = name THEN values[i] ELSE d[i][c]]]

\* ------------------------------------------------------------ the CSV file
\* The columns of titanic.csv, in file order.
csv_columns ==
    <<"PassengerId", "Survived", "Pclass", "Name", "Sex", "Age",
      "SibSp", "Parch", "Ticket", "Fare", "Cabin", "Embarked">>

\* ------------------------------------------------- survival_demographics
age_bins == <<0, 12, 19, 59>>

age_labels == <<"Child", "Teen", "Adult", "Senior">>

\* pd.cut(age, bins=[0, 12, 19, 59, inf], labels=age_labels, right=True):
\* bin k is (bins[k], bins[k+1]], the last one (59, inf]; an age in no bin,
\* or a missing age, gets no label.
cut(age) ==
    IF age = NaN THEN NoGroup
    ELSE LET hit == {k \in 1..Len(age_labels) :
                        /\ age_bins[k] < age
                        /\ (k = Len(age_labels) \/ age <= age_bins[k + 1])}
         IN  IF hit = {} THEN NoGroup ELSE age_labels[CHOOSE k \in hit : TRUE]

all_classes(d) ==
    sorted(unique(d, "Pclass"), [c \in unique(d, "Pclass") |-> <<<<c>>>>])

all_sexes(d) ==
    sorted(unique(d, "Sex"), [x \in unique(d, "Sex") |-> <<Ord(x)>>])

\* itertools.product(classes, sexes, groups): the last factor runs fastest.
product(classes, sexes, groups) ==
    LET ns == Len(sexes)
        ng == Len(groups)
    IN  [k \in 1..(Len(classes) * ns * ng) |->
            <<classes[((k - 1) \div (ns * ng)) + 1],
              sexes[(((k - 1) \div ng) % ns) + 1],
              groups[((k - 1) % ng) + 1]>>]

complete_index(d) == product(all_classes(d), all_sexes(d), age_labels)

\* The dtype pd.cut gives the age_group column: an ordered categorical.
CategoryDtype == [kind |-> "category", categories |-> age_labels, ordered |-> TRUE]

\* The dtype of a level MultiIndex.from_tuples builds from Python strings.
ObjectDtype == [kind |-> "object", categories |-> <<>>, ordered |-> FALSE]

\* One pass over the rows, adding each to the tally of its group key; a row
\* whose age_group is missing belongs to no group (groupby drops it).
RECURSIVE tally(_, _, _)
tally(d, keys, acc) ==
    IF d = <<>> THEN acc
    ELSE LET r == Head(d)
             k == <<r.Pclass, r.Sex, r.age_group>>
         IN  tally(Tail(d), keys,
                   IF k \in keys
                   THEN [acc EXCEPT ![k] = [count |-> @.count + 1,
                                            sum   |-> @.sum + r.Survived]]
                   ELSE acc)

\* df.groupby(['Pclass', 'Sex', 'age_group'], observed=False).agg(count, sum,
\* mean).round(3): one row per observed class x observed sex x every
\* category, in sorted key order; an empty group counts 0, sums to 0 and has
\* no mean.  The age_group level of the index keeps the column's dtype.
grouped_agg(d) ==
    LET idx  == product(sorted(unique(d, "Pclass"), [c \in unique(d, "Pclass") |-> <<<<c>>>>]),
                        sorted(unique(d, "Sex"), [x \in unique(d, "Sex") |-> <<Ord(x)>>]),
                        age_labels)
        keys == {idx[k] : k \in DOMAIN idx}
        t    == tally(d, keys, [k \in keys |-> [count |-> 0, sum |-> 0]])
    IN  [dtype |-> CategoryDtype,
         rows  |-> [k \in DOMAIN idx |->
                     [key           |-> idx[k],
                      n_passengers  |-> t[idx[k]].count,
                      n_survivors   |-> t[idx[k]].sum,
                      survival_rate |-> IF t[idx[k]].count = 0 THEN NaN
                                        ELSE RoundDiv(t[idx[k]].sum, t[idx[k]].count, 1000)]]]

\* The pandas releases the code may run on (the repository pins none), as
\* far as they differ for this code: whether MultiIndex.equals compares the
\* values of a level together with their type (a categorical level never
\* equals a level of plain strings) or by value alone.
PandasBuilds == {"levels_equal_by_type", "levels_equal_by_value"}

\* Index.identical(target), the test by which reindex returns a plain copy:
\* the same keys in the same order under the same names, and levels that
\* MultiIndex.equals accepts as equal.  The current index has the
\* categorical age_group level of the groupby, the target the string level
\* of MultiIndex.from_tuples.
identical(stats, index, build) ==
    /\ [k \in DOMAIN stats.rows |-> stats.rows[k].key] = index
    /\ build = "levels_equal_by_value"

\* stats.reindex(index, fill_value=0).  When the target index is identical to
\* the current one pandas returns a copy and the index, with its categorical
\* level, stays.  Otherwise the rows are taken in the order of the target, a
\* key the statistics lack is filled with zeros, and the result carries the
\* target index, whose age_group level holds plain strings.
reindex(stats, index, build) ==
    IF identical(stats, index, build)
    THEN stats
    ELSE [dtype |-> ObjectDtype,
          rows  |-> [k \in DOMAIN index |->
                      IF \E j \in DOMAIN stats.rows : stats.rows[j].key = index[k]
                      THEN stats.rows[CHOOSE j \in DOMAIN stats.rows :
                                          stats.rows[j].key = index[k]]
                      ELSE [key |-> index[k], n_passengers |-> 0,
                            n_survivors |-> 0, survival_rate |-> 0]]]

\* stats.loc[stats['n_passengers'] == 0, 'survival_rate'] = 0.0
fix_rate(rows) ==
    [k \in DOMAIN rows |->
        IF rows[k].n_passengers = 0
        THEN [rows[k] EXCEPT !.survival_rate = 0]
        ELSE rows[k]]

\* The names of the index levels: the groupby keys, as complete_index names
\* them too.
index_names == <<"Pclass", "Sex", "age_group">>

\* survival_stats.columns = [...]
stat_names == <<"n_passengers", "n_survivors", "survival_rate">>

\* reset_index(): the index levels become columns named by the index names.
reset_index(rows) ==
    [k \in DOMAIN rows |->
        [c \in {index_names[j] : j \in 1..3} \cup {stat_names[j] : j \in 1..3} |->
            IF \E j \in 1..3 : index_names[j] = c
            THEN rows[k].key[CHOOSE j \in 1..3 : index_names[j] = c]
            ELSE rows[k][c]]]

\* The sort key of an age_group value: its category code in a categorical
\* column, its characters in an object column.
GroupKey(dtype, g) ==
    IF dtype.kind = "category"
    THEN <<CHOOSE k \in DOMAIN dtype.categories : dtype.categories[k] = g>>
    ELSE Ord(g)

\* The sort key of a row under sort_values(['Pclass', 'Sex', 'age_group']).
DemoKey(dtype, r) == <<<<r.Pclass>>, Ord(r.Sex), GroupKey(dtype, r.age_group)>>

survival_demographics(d, build) ==
    LET withGroup == WithColumn(d, "age_group", [i \in DOMAIN d |-> cut(d[i].Age)])
        stats     == reindex(grouped_agg(withGroup), complete_index(withGroup), build)
        flat      == reset_index(fix_rate(stats.rows))
    IN  [columns |-> index_names \o stat_names,
         dtype   |-> stats.dtype,
         rows    |-> sort_values(flat, [i \in DOMAIN flat |-> DemoKey(stats.dtype, flat[i])])]

\* ------------------------------------------------------------ family_groups
\* A faulty family_size: the passenger is not counted.
family_size_without_self(r) == r.SibSp + r.Parch

\* df['family_size'] = df['SibSp'] + df['Parch'] + 1
family_size(r) == r.SibSp + r.Parch + 1

\* One pass over the rows, adding each to the tally of its (family_size,
\* Pclass) key; a key enters the tally with its first row.
RECURSIVE fare_tally(_, _)
fare_tally(d, acc) ==
    IF d = <<>> THEN acc
    ELSE LET r == Head(d)
             k == <<r.family_size, r.Pclass>>
             e == IF k \in DOMAIN acc
                  THEN [count |-> acc[k].count + 1,
                        sum   |-> acc[k].sum + r.Fare,
                        min   |-> IF r.Fare < acc[k].min THEN r.Fare ELSE acc[k].min,
                        max   |-> IF r.Fare > acc[k].max THEN r.Fare ELSE acc[k].max]
                  ELSE [count |-> 1, sum |-> r.Fare, min |-> r.Fare, max |-> r.Fare]
         IN  fare_tally(Tail(d), [x \in DOMAIN acc \cup {k} |-> IF x = k THEN e ELSE acc[x]])

\* family_stats.columns = [...] after reset_index()
family_columns ==
    <<"family_size", "Pclass", "n_passengers", "avg_fare", "min_fare", "max_fare">>

\* grouped.agg({'PassengerId': 'count', 'Fare': ['mean', 'min', 'max']})
\* .round(2), columns renamed, reset_index(): one row per observed key, in
\* key order, the fare statistics in hundredths.
family_agg(d) ==
    LET t    == fare_tally(d, <<>>)
        keys == sorted(DOMAIN t, [k \in DOMAIN t |-> <<<<k[1]>>, <<k[2]>>>>])
    IN  [k \in DOMAIN keys |->
            [family_size  |-> keys[k][1],
             Pclass       |-> keys[k][2],
             n_passengers |-> t[keys[k]].count,
             avg_fare     |-> RoundDiv(t[keys[k]].sum, t[keys[k]].count, 100),
             min_fare     |-> 100 * t[keys[k]].min,
             max_fare     |-> 100 * t[keys[k]].max]]

\* The sort key of a row under sort_values(['Pclass', 'family_size']).
FamilyKey(r) == <<<<r.Pclass>>, <<r.family_size>>>>

family_groups(d) ==
    LET withSize == WithColumn(d, "family_size", [i \in DOMAIN d |-> family_size(d[i])])
        stats    == family_agg(withSize)
    IN  [columns |-> family_columns,
         rows    |-> sort_values(stats, [i \in DOMAIN stats |-> FamilyKey(stats[i])])]

\* --------------------------------------------------------------- last_names
\* A faulty split: the characters before the last comma.
split_last(name) ==
    LET commas == {j \in DOMAIN name : name[j] = ","}
    IN  IF commas = {} THEN name
        ELSE SubSeq(name, 1, (CHOOSE j \in commas : \A k \in commas : j >= k) - 1)

\* str.split(',').str[0]: the characters before the first comma, the whole
\* name when it has none.
split_first(name) ==
    LET commas == {j \in DOMAIN name : name[j] = ","}
    IN  IF commas = {} THEN name
        ELSE SubSeq(name, 1, (CHOOSE j \in commas : \A k \in commas : j <= k) - 1)

\* str.strip(): without the leading and the trailing blanks.
strip(s) ==
    LET ink == {j \in DOMAIN s : s[j] # " "}
    IN  IF ink = {} THEN <<>>
        ELSE SubSeq(s, CHOOSE j \in ink : \A k \in ink : j <= k,
                       CHOOSE j \in ink : \A k \in ink : j >= k)

\* The tally of value_counts: each distinct value with its count, in order of
\* first appearance.
RECURSIVE count_values(_, _)
count_values(vals, acc) ==
    IF vals = <<>> THEN acc
    ELSE LET v == Head(vals)
         IN  count_values(Tail(vals),
                 IF \E j \in DOMAIN acc : acc[j].key = v
                 THEN [j \in DOMAIN acc |->
                          IF acc[j].key = v
                          THEN [key |-> v, count |-> acc[j].count + 1]
                          ELSE acc[j]]
                 ELSE Append(acc, [key |-> v, count |-> 1]))

\* Series.value_counts(): the tally sorted by descending count.
value_counts(vals) ==
    LET t == count_values(vals, <<>>)
    IN  sort_values(t, [i \in DOMAIN t |-> <<<<-t[i].count>>>>])

\* A faulty last_names: a passenger whose surname is empty is not counted.
last_names_nonempty(d) ==
    value_counts(SelectSeq([i \in DOMAIN d |-> strip(split_first(d[i].Name))],
                           LAMBDA v : v # <<>>))

last_names(d) ==
    value_counts([i \in DOMAIN d |-> strip(split_first(d[i].Name))])

\* ---------------------------------------------------- determine_age_division
\* pd.read_csv(url): the table with the file's columns.
read_csv(d) == [columns |-> csv_columns, rows |-> d]

\* df[name] = values: a new column goes last, an existing one is overwritten.
assign(frame, name, values) ==
    [columns |-> IF \E j \in DOMAIN frame.columns : frame.columns[j] = name
                 THEN frame.columns ELSE Append(frame.columns, name),
     rows    |-> WithColumn(frame.rows, name, values)]

\* A faulty drop: the column stays.
drop_nothing(frame, name) == frame

\* df.drop(name, axis=1)
drop(frame, name) ==
    [columns |-> SelectSeq(frame.columns, LAMBDA c : c # name),
     rows    |-> [i \in DOMAIN frame.rows |->
                    [c \in DOMAIN frame.rows[i] \ {name} |-> frame.rows[i][c]]]]

\* Series.median() of the present values, as twice the median: the middle
\* value, or the mean of the two middle values; NaN when none is present.
median(xs) ==
    LET s == sort_values(xs, [i \in DOMAIN xs |-> <<<<xs[i]>>>>])
        n == Len(s)
    IN  IF n = 0 THEN NaN
        ELSE IF n % 2 = 1 THEN 2 * s[(n + 1) \div 2]
        ELSE s[n \div 2] + s[(n \div 2) + 1]

\* df.groupby('Pclass')['Age'].median()
median_ages(d) ==
    [c \in unique(d, "Pclass") |->
        median(SelectSeq([i \in DOMAIN d |-> IF d[i].Pclass = c THEN d[i].Age ELSE NaN],
                         LAMBDA a : a # NaN))]

\* A faulty comparison: an age equal to the median counts as older.
age_ge(age, m) == IF age = NaN \/ m = NaN THEN FALSE ELSE 2 * age >= m

\* df['Age'] > df['class_median_age'] (the median carried doubled): a
\* comparison with a missing operand is False.
age_gt(age, m) == IF age = NaN \/ m = NaN THEN FALSE ELSE 2 * age > m

\* Series.fillna(value): a missing entry replaced; a bool column has none.
fillna(v, value) == IF v \in BOOLEAN THEN v ELSE value

determine_age_division(d) ==
    LET medians == median_ages(d)
        f0 == read_csv(d)
        f1 == assign(f0, "class_median_age",
                     [i \in DOMAIN f0.rows |-> medians[f0.rows[i].Pclass]])
        f2 == assign(f1, "older_passenger",
                     [i \in DOMAIN f1.rows |->
                         age_gt(f1.rows[i].Age, f1.rows[i].class_median_age)])
        f3 == assign(f2, "older_passenger",
                     [i \in DOMAIN f2.rows |-> fillna(f2.rows[i].older_passenger, FALSE)])
    IN  drop(f3, "class_median_age")

\* ----------------------------------------------------------- chart builders
\* px.bar(data, x=..., y=..., color=..., facet_col=..., text=...) over the
\* table survival_demographics() returns: the figure as its data and the
\* columns mapped to its channels.
visualize_demographic(d, build) ==
    [chart |-> "bar", data |-> survival_demographics(d, build),
     x |-> "age_group", y |-> "survival_rate", color |-> "Sex",
     facet_col |-> "Pclass", text |-> "survival_rate"]

\* px.scatter(data, x=..., y=..., color=..., size=...) over the table
\* family_groups() returns.
visualize_families(d) ==
    [chart |-> "scatter", data |-> family_groups(d),
     x |-> "family_size", y |-> "avg_fare", color |-> "Pclass",
     size |-> "n_passengers"]

\* One pass over the rows, adding each to the tally of its (Pclass,
\* older_passenger) key; a key enters the tally with its first row.
RECURSIVE division_tally(_, _)
division_tally(rows, acc) ==
    IF rows = <<>> THEN acc
    ELSE LET r == Head(rows)
             k == <<r.Pclass, r.older_passenger>>
             e == IF k \in DOMAIN acc
                  THEN [count |-> acc[k].count + 1, sum |-> acc[k].sum + r.Survived]
                  ELSE [count |-> 1, sum |-> r.Survived]
         IN  division_tally(Tail(rows),
                 [x \in DOMAIN acc \cup {k} |-> IF x = k THEN e ELSE acc[x]])

\* df.groupby(['Pclass', 'older_passenger']).agg(count, sum, mean).round(3),
\* columns renamed, reset_index(), and the age_division label mapped from
\* older_passenger: one row per observed key in key order (False before
\* True), the rate in thousandths.
age_survival(frame) ==
    LET t    == division_tally(frame.rows, <<>>)
        keys == sorted(DOMAIN t, [k \in DOMAIN t |->
                                    <<<<k[1]>>, <<IF k[2] THEN 1 ELSE 0>>>>])
    IN  [j \in DOMAIN keys |->
            [Pclass          |-> keys[j][1],
             older_passenger |-> keys[j][2],
             n_passengers    |-> t[keys[j]].count,
             n_survivors     |-> t[keys[j]].sum,
             survival_rate   |-> RoundDiv(t[keys[j]].sum, t[keys[j]].count, 1000),
             age_division    |-> IF keys[j][2] THEN "Above Median Age"
                                 ELSE "Below/At Median Age"]]

\* px.bar(age_survival, x=..., y=..., color=..., text=..., barmode='group')
\* over the frame determine_age_division() returns.
visualize_age_division(d) ==
    [chart |-> "bar", data |-> age_survival(determine_age_division(d)),
     x |-> "Pclass", y |-> "survival_rate", color |-> "age_division",
     text |-> "survival_rate", barmode |-> "group"]

\* ------------------------------------------------------------------ inputs
\* The values the data model allows in the class and sex columns.
Classes == {1, 2, 3}

Sexes == {"male", "female"}

\* The name "S, J" as characters.
DefaultName == <<"S", ",", " ", "J">>

\* A row of the CSV without its PassengerId.
P(survived, pclass, name, sex, age, sibsp, parch, fare) ==
    [Survived |-> survived, Pclass |-> pclass, Name |-> name,
     Sex |-> sex, Age |-> age, SibSp |-> sibsp, Parch |-> parch,
     Ticket |-> "T", Fare |-> fare, Cabin |-> "C", Embarked |-> "S"]

\* The table of the passengers f[1], f[2], ..., numbered in file order.
Table(f) ==
    [i \in DOMAIN f |->
        [c \in DOMAIN f[i] \cup {"PassengerId"} |->
            IF c = "PassengerId" THEN i ELSE f[i][c]]]

\* The state after the CSV is published and pandas installed, before any
\* call: a non-empty table of at most MaxRecords passengers drawn from Pool.
InitWith(Pool) ==
    /\ \E n \in 1..MaxRecords : \E f \in [1..n -> Pool] : df = Table(f)
    /\ pandas \in PandasBuilds
    /\ prev = "none"
    /\ call = "none"
    /\ result = <<>>

\* Every class and sex with an adult, and a child, a senior and a passenger
\* of unknown age.
DemoPool ==
    {P(1, c, DefaultName, s, 30, 0, 0, 7) : c \in Classes, s \in Sexes}
        \cup {P(0, 1, DefaultName, "male", 5, 0, 0, 7),
              P(0, 2, DefaultName, "female", 70, 0, 0, 7),
              P(1, 3, DefaultName, "male", NaN, 0, 0, 7)}

\* Survivors and victims in the same groups.
RatePool ==
    {P(sv, 1, DefaultName, "male", a, 0, 0, 7) : sv \in {0, 1}, a \in {12, 13}}
        \cup {P(1, 1, DefaultName, "female", 12, 0, 0, 7),
              P(0, 2, DefaultName, "male", 60, 0, 0, 7),
              P(1, 1, DefaultName, "male", NaN, 0, 0, 7),
              P(1, 1, DefaultName, "male", 59, 0, 0, 7)}

\* Ages on both sides of every bin edge, age 0, and a missing age.
AgePool ==
    {P(1, 1, DefaultName, "male", a, 0, 0, 7) : a \in {NaN, 0, 12, 13, 19, 20, 59, 60}}
        \cup {P(0, 2, DefaultName, "female", 12, 0, 0, 7)}

\* Two classes with known and unknown ages.
MedianPool ==
    {P(1, c, DefaultName, "male", a, 0, 0, 7) : c \in {1, 2}, a \in {NaN, 20, 25, 30}}

\* Families of sizes 1, 2, 2 and 3 in two classes, and a second fare.
FamilyPool ==
    {P(1, c, DefaultName, "male", 30, sb, pa, 7) : c \in {1, 3}, sb \in {0, 1}, pa \in {0, 1}}
        \cup {P(1, 1, DefaultName, "male", 30, 0, 0, 8)}

\* Names with and without a comma, with blanks around the surname, with two
\* commas, and with nothing before the comma.
NamePool ==
    {P(1, 1, nm, "male", 30, 0, 0, 7) :
        nm \in {<<"A", ",", " ", "x">>, <<"A", ",", "y">>, <<" ", "A", " ", ",", "x">>,
                <<"B", ",", " ", "x">>, <<"B">>, <<"A", ",", "B", ",", "x">>,
                <<",", " ", "x">>, <<"A", " ", "B", ",", "x">>}}

\* Two passengers differing in every field.
MixedPool ==
    {P(1, 1, <<"A", ",", " ", "x">>, "female", 30, 1, 0, 70),
     P(0, 3, <<"B", ",", " ", "y">>, "male", 5, 0, 2, 8)}

\* ----------------------------------------------------------------- actions
CallSurvivalDemographics ==
    /\ call' = "survival_demographics"
    /\ result' = survival_demographics(df, pandas)
    /\ prev' = call
    /\ UNCHANGED <<df, pandas>>

CallFamilyGroups ==
    /\ call' = "family_groups"
    /\ result' = family_groups(df)
    /\ prev' = call
    /\ UNCHANGED <<df, pandas>>

CallLastNames ==
    /\ call' = "last_names"
    /\ result' = last_names(df)
    /\ prev' = call
    /\ UNCHANGED <<df, pandas>>

CallDetermineAgeDivision ==
    /\ call' = "determine_age_division"
    /\ result' = determine_age_division(df)
    /\ prev' = call
    /\ UNCHANGED <<df, pandas>>

CallVisualizeDemographic ==
    /\ call' = "visualize_demographic"
    /\ result' = visualize_demographic(df, pandas)
    /\ prev' = call
    /\ UNCHANGED <<df, pandas>>

CallVisualizeFamilies ==
    /\ call' = "visualize_families"
    /\ result' = visualize_families(df)
    /\ prev' = call
    /\ UNCHANGED <<df, pandas>>

\* A faulty builder working on a table all builders share instead of a
\* frame of its own: the column it adds stays in the table.
CallVisualizeAgeDivision_shared ==
    /\ call' = "visualize_age_division"
    /\ result' = visualize_age_division(df)
    /\ prev' = call
    /\ df' = determine_age_division(df).rows
    /\ UNCHANGED pandas

CallVisualizeAgeDivision ==
    /\ call' = "visualize_age_division"
    /\ result' = visualize_age_division(df)
    /\ prev' = call
    /\ UNCHANGED <<df, pandas>>

Init == InitWith(MixedPool)

Next ==
    \/ CallSurvivalDemographics
    \/ CallFamilyGroups
    \/ CallLastNames
    \/ CallDetermineAgeDivision
    \/ CallVisualizeDemographic
    \/ CallVisualizeFamilies
    \/ CallVisualizeAgeDivision

Spec == Init /\ [][Next]_vars

SpecDemographics == InitWith(DemoPool) /\ [][CallSurvivalDemographics]_vars

SpecRates == InitWith(RatePool) /\ [][CallSurvivalDemographics]_vars

SpecAges == InitWith(AgePool) /\ [][CallSurvivalDemographics]_vars

SpecFamilies == InitWith(FamilyPool) /\ [][CallFamilyGroups]_vars

SpecNames == InitWith(NamePool) /\ [][CallLastNames]_vars

SpecAgeDivision == InitWith(MedianPool) /\ [][CallDetermineAgeDivision]_vars

\* ------------------------------------------------------------------ claims
RECURSIVE SumOf(_)
SumOf(xs) == IF xs = <<>> THEN 0 ELSE Head(xs) + SumOf(Tail(xs))

AgeGroups == {"Child", "Teen", "Adult", "Senior"}

AllCombinations == {<<c, s, g>> : c \in Classes, s \in Sexes, g \in AgeGroups}

RowKey(r) == <<r.Pclass, r.Sex, r.age_group>>

\* The rows of the returned table whose key is k.
RowsOf(k) == {i \in DOMAIN result.rows : RowKey(result.rows[i]) = k}

\* Age a lies in the bin of group g: (0,12], (12,19], (19,59], (59,inf).
InBin(a, g) ==
    /\ a # NaN
    /\ \/ g = "Child"  /\ 0 < a  /\ a <= 12
       \/ g = "Teen"   /\ 12 < a /\ a <= 19
       \/ g = "Adult"  /\ 19 < a /\ a <= 59
       \/ g = "Senior" /\ 59 < a

\* The passengers of the published table that fall in the group of key k.
GroupOf(k) ==
    {i \in DOMAIN df : df[i].Pclass = k[1] /\ df[i].Sex = k[2] /\ InBin(df[i].Age, k[3])}

\* C1 (as claimed): survival_demographics returns exactly 24 rows for every
\* input, exactly one for each combination of {1,2,3} x {male,female} x
\* {Child,Teen,Adult,Senior}, also when a class or a sex does not occur.
C1_TwentyFourRows ==
    call = "survival_demographics" =>
        /\ Len(result.rows) = 24
        /\ \A k \in AllCombinations : Cardinality(RowsOf(k)) = 1

\* C2 (as claimed): pclass, sex, age_group, n_passengers, n_survivors and
\* survival_rate are columns of the table survival_demographics returns, and
\* family_size, pclass, n_passengers, avg_fare, min_fare and max_fare are
\* columns of the table family_groups returns.
C2_ColumnNames ==
    /\ call = "survival_demographics" =>
        {"pclass", "sex", "age_group", "n_passengers", "n_survivors", "survival_rate"}
            \subseteq Range(result.columns)
    /\ call = "family_groups" =>
        {"family_size", "pclass", "n_passengers", "avg_fare", "min_fare", "max_fare"}
            \subseteq Range(result.columns)

\* The place of an age group in the category order Child < Teen < Adult < Senior.
GroupRank(g) ==
    CASE g = "Child" -> 1 [] g = "Teen" -> 2 [] g = "Adult" -> 3 [] g = "Senior" -> 4

\* The place of a sex in the order of the sex column (female before male).
SexRank(s) == IF s = "female" THEN 1 ELSE 2

\* Row r comes before row s by class, then sex, then age group category.
Before(r, s) ==
    \/ r.Pclass < s.Pclass
    \/ r.Pclass = s.Pclass /\ SexRank(r.Sex) < SexRank(s.Sex)
    \/ r.Pclass = s.Pclass /\ r.Sex = s.Sex
          /\ GroupRank(r.age_group) < GroupRank(s.age_group)

\* C3 (as claimed): the rows survival_demographics returns are ordered by
\* class, then by sex, then by age group in the category order Child < Teen
\* < Adult < Senior (not alphabetically), and the age_group column is an
\* ordered categorical with exactly the categories [Child, Teen, Adult,
\* Senior].
C3_RowOrder ==
    call = "survival_demographics" =>
        /\ result.dtype.kind = "category"
        /\ result.dtype.ordered
        /\ result.dtype.categories = <<"Child", "Teen", "Adult", "Senior">>
        /\ \A i, j \in DOMAIN result.rows :
              i < j => Before(result.rows[i], result.rows[j])

\* C4 (as claimed): every (class, sex, age group) combination that no record
\* matches is a row of the table survival_demographics returns, with
\* n_passengers = 0, n_survivors = 0 and survival_rate = 0.0.
C4_EmptyCombinationsKept ==
    call = "survival_demographics" =>
        \A k \in AllCombinations :
            GroupOf(k) = {} =>
                /\ RowsOf(k) # {}
                /\ \A i \in RowsOf(k) :
                      /\ result.rows[i].n_passengers = 0
                      /\ result.rows[i].n_survivors = 0
                      /\ result.rows[i].survival_rate = 0

\* The rate (in thousandths) is s/n rounded to 3 decimals: no thousandth is
\* nearer to s/n.
RoundedRate(rate, s, n) ==
    LET err == rate * n - 1000 * s
    IN  2 * (IF err < 0 THEN -err ELSE err) <= n

\* C5: in every row survival_demographics returns, n_passengers is the number
\* of records of the row's group and n_survivors the sum of their survived
\* flags, n_survivors <= n_passengers, survival_rate lies in [0, 1], and
\* survival_rate is n_survivors/n_passengers rounded to 3 decimals whenever
\* n_passengers > 0.
C5_CountsAndRates ==
    call = "survival_demographics" =>
        \A i \in DOMAIN result.rows :
            LET r == result.rows[i]
                g == GroupOf(RowKey(r))
            IN  /\ r.n_passengers = Cardinality(g)
                /\ r.n_survivors = SumOf([j \in 1..Len(df) |->
                                            IF j \in g THEN df[j].Survived ELSE 0])
                /\ r.n_survivors <= r.n_passengers
                /\ 0 <= r.survival_rate /\ r.survival_rate <= 1000
                /\ r.n_passengers > 0 =>
                      RoundedRate(r.survival_rate, r.n_survivors, r.n_passengers)

\* C5's case: a group of three passengers of whom one or two survived, whose
\* rate (1/3 or 2/3) has to be rounded.
C5_Witness ==
    /\ call = "survival_demographics"
    /\ \E i \in DOMAIN result.rows :
          /\ result.rows[i].n_passengers = 3
          /\ result.rows[i].n_survivors \in {1, 2}
          /\ result.rows[i].survival_rate \in {333, 667}

\* The age group the claim assigns to a present age.
ClaimedGroup(a) ==
    IF a <= 12 THEN "Child" ELSE IF a <= 19 THEN "Teen"
    ELSE IF a <= 59 THEN "Adult" ELSE "Senior"

\* C6 (as claimed): every record whose age is present is assigned exactly one
\* of Child (age <= 12), Teen (12 < age <= 19), Adult (19 < age <= 59),
\* Senior (age > 59) and is counted in exactly the row of that group; a
\* record whose age is absent is counted in no row.
C6_AgePartition ==
    call = "survival_demographics" =>
        /\ \A i \in DOMAIN result.rows :
              result.rows[i].n_passengers =
                  Cardinality({j \in DOMAIN df :
                      /\ df[j].Age # NaN
                      /\ <<df[j].Pclass, df[j].Sex, ClaimedGroup(df[j].Age)>>
                            = RowKey(result.rows[i])})
        /\ \A j \in DOMAIN df :
              df[j].Age # NaN =>
                  Cardinality(RowsOf(<<df[j].Pclass, df[j].Sex, ClaimedGroup(df[j].Age)>>)) = 1

\* The present ages of the passengers of class c, by passenger.
PeersOf(c) == {j \in DOMAIN df : df[j].Pclass = c /\ df[j].Age # NaN}

\* The k-th smallest present age of class c: the age v with fewer than k
\* peers below it and at least k peers not above it.
KthAge(c, k) ==
    CHOOSE v \in {df[j].Age : j \in PeersOf(c)} :
        /\ Cardinality({j \in PeersOf(c) : df[j].Age < v}) < k
        /\ Cardinality({j \in PeersOf(c) : df[j].Age <= v}) >= k

\* Twice the median of the present ages of class c, which has some.
TwiceMedian(c) ==
    LET n == Cardinality(PeersOf(c))
    IN  IF n % 2 = 1 THEN 2 * KthAge(c, (n + 1) \div 2)
        ELSE KthAge(c, n \div 2) + KthAge(c, (n \div 2) + 1)

\* C7: determine_age_division sets older_passenger to true exactly for the
\* records whose age is present and strictly greater than the median of the
\* present ages of their class, to false for every record whose age is
\* absent, and to a boolean, never a missing value, for every record (also
\* when no age of the record's class is present).
C7_OlderPassenger ==
    call = "determine_age_division" =>
        \A i \in DOMAIN result.rows :
            LET r == result.rows[i]
            IN  /\ r.older_passenger \in BOOLEAN
                /\ r.Age = NaN => r.older_passenger = FALSE
                /\ r.Age # NaN =>
                      (r.older_passenger <=> 2 * r.Age > TwiceMedian(r.Pclass))

\* C7's case: the classifier ran on a table holding a passenger above a
\* median that lies between two ages, a passenger of unknown age, and a
\* class none of whose ages is present.
C7_Witness ==
    /\ call = "determine_age_division"
    /\ \E i, k \in DOMAIN result.rows :
          /\ result.rows[i].older_passenger
          /\ Cardinality(PeersOf(result.rows[i].Pclass)) = 2
          /\ result.rows[k].Age = NaN
          /\ PeersOf(result.rows[k].Pclass) = {}
          /\ ~result.rows[k].older_passenger

\* The (family_size, class) key of a passenger of the published table.
ObservedKey(p) == <<p.SibSp + p.Parch + 1, p.Pclass>>

\* C8: family_groups derives family_size = SibSp + Parch + 1 (so >= 1),
\* returns one row for each (family_size, class) combination that occurs in
\* the input and none for any other, each counting the records of its
\* combination, and the n_passengers of all rows sum to the number of input
\* records.
C8_FamilyGroups ==
    call = "family_groups" =>
        LET observed == {ObservedKey(df[i]) : i \in DOMAIN df}
            key(r)   == <<r.family_size, r.Pclass>>
        IN  /\ {key(result.rows[i]) : i \in DOMAIN result.rows} = observed
            /\ Len(result.rows) = Cardinality(observed)
            /\ \A i \in DOMAIN result.rows :
                  /\ result.rows[i].family_size >= 1
                  /\ result.rows[i].n_passengers =
                        Cardinality({j \in DOMAIN df : ObservedKey(df[j]) = key(result.rows[i])})
            /\ SumOf([i \in DOMAIN result.rows |-> result.rows[i].n_passengers]) = Len(df)

\* C8's case: a sibling and a child give two passengers the same family size
\* in one class (one row counting both), beside a passenger of another key.
C8_Witness ==
    /\ call = "family_groups"
    /\ Len(result.rows) = 2
    /\ \E i, j \in DOMAIN df :
          /\ df[i].SibSp # df[j].SibSp
          /\ ObservedKey(df[i]) = ObservedKey(df[j])
    /\ \E i \in DOMAIN result.rows :
          result.rows[i].n_passengers = 2 /\ result.rows[i].family_size = 2

\* C9: the counts last_names returns sum to the number of input records, each
\* surname being listed once.
C9_CountsSumToTotal ==
    call = "last_names" =>
        /\ SumOf([i \in DOMAIN result |-> result[i].count]) = Len(df)
        /\ \A i, j \in DOMAIN result : result[i].key = result[j].key => i = j

\* C9's case: three names were counted, two under one surname, one of them
\* with blanks around it, and one under the empty surname.
C9_Witness ==
    /\ call = "last_names"
    /\ Len(df) = 3
    /\ \E i \in DOMAIN result : result[i].key = <<"A">> /\ result[i].count = 2
    /\ \E i \in DOMAIN result : result[i].key = <<>> /\ result[i].count = 1
    /\ \E i \in DOMAIN df : df[i].Name = <<" ", "A", " ", ",", "x">>

\* C10: the table determine_age_division returns is the input table with
\* exactly one more column, older_passenger: the same rows in the same order,
\* every original value unchanged, and no class_median_age column.
C10_OnlyOneColumnAdded ==
    call = "determine_age_division" =>
        /\ result.columns = csv_columns \o <<"older_passenger">>
        /\ Len(result.rows) = Len(df)
        /\ \A i \in DOMAIN result.rows :
              /\ DOMAIN result.rows[i] = Range(result.columns)
              /\ \A c \in Range(csv_columns) : result.rows[i][c] = df[i][c]
        /\ "class_median_age" \notin Range(result.columns)

\* C10's case: the classifier ran on three passengers of two classes, some
\* above their class median and some of unknown age.
C10_Witness ==
    /\ call = "determine_age_division"
    /\ Len(result.rows) = 3
    /\ Cardinality({df[i].Pclass : i \in DOMAIN df}) = 2
    /\ \E i \in DOMAIN result.rows : result.rows[i].older_passenger
    /\ \E i \in DOMAIN result.rows : result.rows[i].Age = NaN

\* The table or figure the builder `name` returns when it is called first
\* and alone on the published table.
FirstAlone(name) ==
    CASE name = "survival_demographics"  -> survival_demographics(df, pandas)
      [] name = "family_groups"          -> family_groups(df)
      [] name = "last_names"             -> last_names(df)
      [] name = "determine_age_division" -> determine_age_division(df)
      [] name = "visualize_demographic"  -> visualize_demographic(df, pandas)
      [] name = "visualize_families"     -> visualize_families(df)
      [] name = "visualize_age_division" -> visualize_age_division(df)

Blanks(n) == [j \in 1..n |-> " "]

\* The Name field up to its first comma: the whole field when it has none.
UpToFirstComma(name) ==
    IF \E j \in DOMAIN name : name[j] = ","
    THEN SubSeq(name, 1, (CHOOSE j \in DOMAIN name :
                              /\ name[j] = ","
                              /\ \A k \in 1..(j - 1) : name[k] # ",") - 1)
    ELSE name

\* key is text with the blanks around it trimmed: text is key between two
\* runs of blanks, and key neither starts nor ends with a blank.  lead is the
\* length of the run before it.
TrimmedAt(key, text, lead) ==
    /\ lead + Len(key) <= Len(text)
    /\ text = Blanks(lead) \o key \o Blanks(Len(text) - lead - Len(key))
    /\ key # <<>> => key[1] # " " /\ key[Len(key)] # " "

\* key is a prefix of text.
IsPrefix(key, text) ==
    /\ Len(key) <= Len(text)
    /\ SubSeq(text, 1, Len(key)) = key

\* The result lists distinct surnames in order of descending count.
DistinctDescending ==
    \A i, j \in DOMAIN result :
        i < j => /\ result[i].key # result[j].key
                 /\ result[i].count >= result[j].count

\* C12 (as claimed): every surname key of the last_names output is the part
\* of some record's Name before its first comma with the surrounding
\* whitespace trimmed, and is a prefix of that record's Name up to its first
\* comma; the result lists distinct surnames in order of descending count.
C12_SurnameIsPrefix ==
    call = "last_names" =>
        /\ \A k \in DOMAIN result : \E i \in DOMAIN df :
              /\ \E lead \in 0..Len(df[i].Name) :
                    TrimmedAt(result[k].key, UpToFirstComma(df[i].Name), lead)
              /\ IsPrefix(result[k].key, UpToFirstComma(df[i].Name))
        /\ DistinctDescending

\* C12 (amended): every surname key of the last_names output is the part of
\* some record's Name before its first comma with the surrounding whitespace
\* trimmed, and is a prefix of that part once its leading whitespace is
\* removed; the result lists distinct surnames in order of descending count.
C12_SurnameIsTrimmedPrefix ==
    call = "last_names" =>
        /\ \A k \in DOMAIN result : \E i \in DOMAIN df :
              LET part == UpToFirstComma(df[i].Name)
              IN  \E lead \in 0..Len(part) :
                     /\ TrimmedAt(result[k].key, part, lead)
                     /\ IsPrefix(result[k].key, SubSeq(part, lead + 1, Len(part)))
        /\ DistinctDescending

\* C12 witness: last_names has returned two surnames with different counts,
\* the first of them read from a Name that starts with a blank and from a
\* Name with two commas.
C12_Witness ==
    /\ call = "last_names"
    /\ Len(result) = 2
    /\ result[1].count > result[2].count
    /\ \E i, j \in DOMAIN df :
          /\ df[i].Name[1] = " "
          /\ Cardinality({c \in DOMAIN df[j].Name : df[j].Name[c] = ","}) = 2
          /\ result[1].key = <<"A">>
          /\ UpToFirstComma(df[i].Name) # UpToFirstComma(df[j].Name)

====
